---- MODULE Spec2Model ----
(***************************************************************************)
(* Model of the Win99 mission framework: the pre-init / post-init event    *)
(* handler registries (CfgPreInit.hpp, CfgPostInit.hpp), the path and      *)
(* compile macros and the variable macros of main/script_macros.hpp.       *)
(***************************************************************************)
EXTENDS Naturals, Sequences, FiniteSets, TLC

VARIABLES
    broken,             \* files whose compile fails (missing or syntax error)
    DISABLE_COMPILE_CACHE, \* whether the component header defines the flag
    lifecycle,          \* per process: the orchestrator's state
    role,               \* per process: the post-init role pass in progress
    idx,                \* per process: position in the list being dispatched
    running,            \* per process: the file whose function is executing
    compileCount,       \* per process, per file: compile invocations
    callCount,          \* per process, per file: calls of a loaded function
    finished,           \* per process: files whose entry has run to its end
    degraded,           \* per process: classes with a failed load
    resolveCount,       \* per process, per file: PREP / PREPMAIN resolutions
    fncVars,            \* per process: function variables PREP has assigned
    store,              \* per process: the bindings of each namespace
    net,                \* public variable messages in flight
    nwrites,            \* number of setVariable calls made so far
    recv,               \* per process: ids of the public writes delivered to it
    touched             \* per process: the (namespace, name) pairs ever set on it

lifeVars == <<lifecycle, role, idx, running, callCount, finished, degraded>>
prepVars == <<resolveCount, fncVars>>
storeVars == <<store, net, nwrites, recv, touched>>
vars == <<broken, DISABLE_COMPILE_CACHE, lifeVars, compileCount, prepVars, storeVars>>

(***************************************************************************)
(* Bounds of the model.                                                    *)
(***************************************************************************)
MaxBroken == 1          \* at most this many files fail to compile
MaxResolve == 2         \* PREP / PREPMAIN resolutions in a run
MaxWrites == 2          \* setVariable calls in a run

(***************************************************************************)
(* main/script_macros.hpp                                                  *)
(***************************************************************************)
PREFIX == "Win99"

GVARMAIN(var1) == PREFIX \o "_" \o var1

ADDON(component) == PREFIX \o "_" \o component

PATHTO_SYS(var1, var2, var3, var4) ==
    var1 \o "\\" \o var2 \o "\\" \o var3 \o "\\" \o var4 \o ".sqf"

\* The text of an event handler entry: compile the file, then call the result.
CCOMP(var1) == [cmd |-> "call compile preProcessFileLineNumbers", file |-> var1]

PATH_POST(var1) == CCOMP("Win99\\" \o var1 \o "\\XEH_postInit.sqf")

\* Mutant: the client entry names the server file.
PATH_POST_CLIENT_Server(var1) == CCOMP("Win99\\" \o var1 \o "\\XEH_postInit_server.sqf")

PATH_POST_CLIENT(var1) == CCOMP("Win99\\" \o var1 \o "\\XEH_postInit_client.sqf")

PATH_POST_SERVER(var1) == CCOMP("Win99\\" \o var1 \o "\\XEH_postInit_server.sqf")

PATH_PRE(var1) == CCOMP("Win99\\" \o var1 \o "\\XEH_preInit.sqf")

(***************************************************************************)
(* main/CfgPreInit.hpp and main/CfgPostInit.hpp: the registries, in their  *)
(* declaration order.                                                      *)
(***************************************************************************)
PreInit_Main == [class |-> GVARMAIN("Main"), init |-> PATH_PRE("main")]

PreInit_DB == [class |-> GVARMAIN("DB"), init |-> PATH_PRE("db")]

PreInit_Calendar == [class |-> GVARMAIN("Calendar"), init |-> PATH_PRE("calendar")]

PreInit_Messenger == [class |-> GVARMAIN("Messenger"), init |-> PATH_PRE("messenger")]

PreInit_Notepad == [class |-> GVARMAIN("Notepad"), init |-> PATH_PRE("notepad")]

PreInit_SNet == [class |-> GVARMAIN("SNet"), init |-> PATH_PRE("snet")]

\* Mutant: the SNet class is not registered for pre-init.
PreInitRegistry_MissingSNet ==
    << PreInit_Main, PreInit_DB, PreInit_Calendar, PreInit_Messenger, PreInit_Notepad >>

\* Mutant: the DB class was copied from Main and still names Main's file.
PreInitRegistry_Duplicate ==
    << PreInit_Main, [class |-> GVARMAIN("DB"), init |-> PATH_PRE("main")],
       PreInit_Calendar, PreInit_Messenger, PreInit_Notepad, PreInit_SNet >>

PreInitRegistry ==
    << PreInit_Main, PreInit_DB, PreInit_Calendar,
       PreInit_Messenger, PreInit_Notepad, PreInit_SNet >>

PostInit_Main ==
    [class |-> GVARMAIN("Main"),
     init |-> PATH_POST("main"),
     clientInit |-> PATH_POST_CLIENT("main"),
     serverInit |-> PATH_POST_SERVER("main")]

PostInit_DB ==
    [class |-> GVARMAIN("DB"),
     init |-> PATH_POST("db"),
     clientInit |-> PATH_POST_CLIENT("db"),
     serverInit |-> PATH_POST_SERVER("db")]

PostInit_Calendar ==
    [class |-> GVARMAIN("Calendar"),
     init |-> PATH_POST("calendar"),
     clientInit |-> PATH_POST_CLIENT("calendar"),
     serverInit |-> PATH_POST_SERVER("calendar")]

PostInit_Messenger ==
    [class |-> GVARMAIN("Messenger"),
     init |-> PATH_POST("messenger"),
     clientInit |-> PATH_POST_CLIENT("messenger"),
     serverInit |-> PATH_POST_SERVER("messenger")]

PostInit_Notepad ==
    [class |-> GVARMAIN("Notepad"),
     init |-> PATH_POST("notepad"),
     clientInit |-> PATH_POST_CLIENT("notepad"),
     serverInit |-> PATH_POST_SERVER("notepad")]

PostInit_SNet ==
    [class |-> GVARMAIN("SNet"),
     init |-> PATH_POST("snet"),
     clientInit |-> PATH_POST_CLIENT("snet"),
     serverInit |-> PATH_POST_SERVER("snet")]

\* Mutant: the DB class is declared before the Main class.
PostInitRegistry_Swapped ==
    << PostInit_DB, PostInit_Main, PostInit_Calendar,
       PostInit_Messenger, PostInit_Notepad, PostInit_SNet >>

\* Mutant: the Main class has the files of init and serverInit exchanged.
PostInitRegistry_RoleSwapped ==
    << [class |-> GVARMAIN("Main"),
        init |-> PATH_POST_SERVER("main"),
        clientInit |-> PATH_POST_CLIENT("main"),
        serverInit |-> PATH_POST("main")],
       PostInit_DB, PostInit_Calendar,
       PostInit_Messenger, PostInit_Notepad, PostInit_SNet >>

PostInitRegistry ==
    << PostInit_Main, PostInit_DB, PostInit_Calendar,
       PostInit_Messenger, PostInit_Notepad, PostInit_SNet >>

\* The components whose script_component.hpp is in the source tree.
Components == {"calendar", "messenger", "notepad"}

\* Names of functions a component prepares with PREP / PREPMAIN.
FncNames == {"init"}

FunctionFile(component, fnc) ==
    PATHTO_SYS("Win99", component, "functions", "fnc_" \o fnc)

(***************************************************************************)
(* The processes and the roles the hosting environment gives them.         *)
(***************************************************************************)
Procs == {"server", "client"}

RolesOf(p) == IF p = "server" THEN {"Main", "Server"} ELSE {"Main", "Client"}

\* The order in which the role passes of the post-init phase run.
RoleOrder == <<"Main", "Server", "Client">>

\* The entry of a registry class that belongs to a role.
RoleKey(r) ==
    CASE r = "Main"   -> "init"
      [] r = "Server" -> "serverInit"
      [] r = "Client" -> "clientInit"

HasKey(entry, key) == key \in DOMAIN entry

\* The classes of a phase that declare an entry for the role, in registry order.
listFor(phase, r) ==
    LET reg == IF phase = "pre" THEN PreInitRegistry ELSE PostInitRegistry
        declares(e) == HasKey(e, RoleKey(r))
    IN  SelectSeq(reg, declares)

Range(s) == {s[i] : i \in DOMAIN s}

XEHFiles ==
    {e.init.file : e \in Range(PreInitRegistry)} \cup
    UNION {{e[k].file : k \in DOMAIN e \ {"class"}} : e \in Range(PostInitRegistry)}

FunctionFiles == {FunctionFile(c, f) : c \in Components, f \in FncNames}

Files == XEHFiles \cup FunctionFiles

FncVarNames ==
    {ADDON(c) \o "_fnc_" \o f : c \in Components, f \in FncNames} \cup
    {PREFIX \o "_fnc_" \o f : f \in FncNames}

(***************************************************************************)
(* The namespaces of the variable macros.                                  *)
(***************************************************************************)
Objects == {"obj1"}

Namespaces == {"missionNamespace", "parsingNamespace"} \cup Objects

\* Variable names and values the callers pass; "nil" is an undefined variable.
Names == {"k1", "k2"}

Values == {"a", "b"}

(***************************************************************************)
(* The state after construction.                                           *)
(***************************************************************************)
\* The sets of at most n files of S.
RECURSIVE SubsetsUpTo(_, _)
SubsetsUpTo(S, n) ==
    IF n = 0 THEN {{}}
    ELSE LET smaller == SubsetsUpTo(S, n - 1)
         IN  smaller \cup {b \cup {f} : b \in smaller, f \in S}

LifecycleInit ==
    /\ lifecycle = [p \in Procs |-> "Unstarted"]
    /\ role = [p \in Procs |-> "none"]
    /\ idx = [p \in Procs |-> 0]
    /\ running = [p \in Procs |-> "none"]
    /\ compileCount = [p \in Procs |-> [f \in Files |-> 0]]
    /\ callCount = [p \in Procs |-> [f \in Files |-> 0]]
    /\ finished = [p \in Procs |-> {}]
    /\ degraded = [p \in Procs |-> {}]

PrepInit ==
    /\ resolveCount = [p \in Procs |-> [f \in Files |-> 0]]
    /\ fncVars = [p \in Procs |-> [n \in FncVarNames |-> "nil"]]

StoreInit ==
    /\ store = [p \in Procs |-> [s \in Namespaces |-> [k \in Names |-> "nil"]]]
    /\ net = {}
    /\ nwrites = 0
    /\ recv = [p \in Procs |-> {}]
    /\ touched = [p \in Procs |-> {}]

\* The mission starts: the flag is commented out in every component header.
Init ==
    /\ broken \in SubsetsUpTo(XEHFiles, MaxBroken)
    /\ DISABLE_COMPILE_CACHE = FALSE
    /\ LifecycleInit
    /\ PrepInit
    /\ StoreInit

(***************************************************************************)
(* The lifecycle orchestrator.                                             *)
(***************************************************************************)
\* The list the process is dispatching, and the entry it is at.
CurrentList(p) ==
    IF lifecycle[p] = "PreInitRunning" THEN listFor("pre", "Main")
    ELSE IF lifecycle[p] = "PostInitRunning" THEN listFor("post", role[p])
    ELSE << >>

CurrentKey(p) == IF lifecycle[p] = "PreInitRunning" THEN "init" ELSE RoleKey(role[p])

AtEntry(p) ==
    /\ lifecycle[p] \in {"PreInitRunning", "PostInitRunning"}
    /\ running[p] = "none"
    /\ idx[p] \in DOMAIN CurrentList(p)

CurrentEntry(p) == CurrentList(p)[idx[p]]

CurrentCommand(p) == CurrentEntry(p)[CurrentKey(p)]

\* The roles of RoleOrder the process holds, in order.
HeldRoles(p) ==
    LET held(r) == r \in RolesOf(p) IN SelectSeq(RoleOrder, held)

StartPreInit(p) ==
    /\ lifecycle[p] = "Unstarted"
    /\ lifecycle' = [lifecycle EXCEPT ![p] = "PreInitRunning"]
    /\ idx' = [idx EXCEPT ![p] = 1]
    /\ UNCHANGED <<broken, DISABLE_COMPILE_CACHE, role, running, compileCount,
                   callCount, finished, degraded, prepVars, storeVars>>

\* The entry's file compiles: its function is called.
Invoke(p) ==
    /\ AtEntry(p)
    /\ LET f == CurrentCommand(p).file IN
        /\ f \notin broken
        /\ compileCount' = [compileCount EXCEPT ![p][f] = @ + 1]
        /\ callCount' = [callCount EXCEPT ![p][f] = @ + 1]
        /\ running' = [running EXCEPT ![p] = f]
    /\ UNCHANGED <<broken, DISABLE_COMPILE_CACHE, lifecycle, role, idx,
                   finished, degraded, prepVars, storeVars>>

\* Mutant: a failed load ends the phase, the entries after it are skipped.
LoadFailure_Abort(p) ==
    /\ AtEntry(p)
    /\ LET f == CurrentCommand(p).file IN
        /\ f \in broken
        /\ compileCount' = [compileCount EXCEPT ![p][f] = @ + 1]
        /\ degraded' = [degraded EXCEPT ![p] = @ \cup {CurrentEntry(p).class}]
        /\ finished' = [finished EXCEPT ![p] = @ \cup {f}]
        /\ idx' = [idx EXCEPT ![p] = Len(CurrentList(p)) + 1]
    /\ UNCHANGED <<broken, DISABLE_COMPILE_CACHE, lifecycle, role, running,
                   callCount, prepVars, storeVars>>

\* The entry's file fails to compile: the failure is recorded, the phase goes on.
LoadFailure(p) ==
    /\ AtEntry(p)
    /\ LET f == CurrentCommand(p).file IN
        /\ f \in broken
        /\ compileCount' = [compileCount EXCEPT ![p][f] = @ + 1]
        /\ degraded' = [degraded EXCEPT ![p] = @ \cup {CurrentEntry(p).class}]
        /\ finished' = [finished EXCEPT ![p] = @ \cup {f}]
        /\ idx' = [idx EXCEPT ![p] = @ + 1]
    /\ UNCHANGED <<broken, DISABLE_COMPILE_CACHE, lifecycle, role, running,
                   callCount, prepVars, storeVars>>

\* The function that was called returns.
Return(p) ==
    /\ running[p] # "none"
    /\ finished' = [finished EXCEPT ![p] = @ \cup {running[p]}]
    /\ running' = [running EXCEPT ![p] = "none"]
    /\ idx' = [idx EXCEPT ![p] = @ + 1]
    /\ UNCHANGED <<broken, DISABLE_COMPILE_CACHE, lifecycle, role, compileCount,
                   callCount, degraded, prepVars, storeVars>>

EndPreInit(p) ==
    /\ lifecycle[p] = "PreInitRunning"
    /\ running[p] = "none"
    /\ idx[p] > Len(CurrentList(p))
    /\ lifecycle' = [lifecycle EXCEPT ![p] = "PreInitDone"]
    /\ idx' = [idx EXCEPT ![p] = 0]
    /\ UNCHANGED <<broken, DISABLE_COMPILE_CACHE, role, running, compileCount,
                   callCount, finished, degraded, prepVars, storeVars>>

StartPostInit(p) ==
    /\ lifecycle[p] = "PreInitDone"
    /\ lifecycle' = [lifecycle EXCEPT ![p] = "PostInitRunning"]
    /\ role' = [role EXCEPT ![p] = HeldRoles(p)[1]]
    /\ idx' = [idx EXCEPT ![p] = 1]
    /\ UNCHANGED <<broken, DISABLE_COMPILE_CACHE, running, compileCount,
                   callCount, finished, degraded, prepVars, storeVars>>

\* A role pass is exhausted: the next role the process holds, or the end.
EndRolePass(p) ==
    /\ lifecycle[p] = "PostInitRunning"
    /\ running[p] = "none"
    /\ idx[p] > Len(CurrentList(p))
    /\ LET held == HeldRoles(p)
           at == CHOOSE i \in DOMAIN held : held[i] = role[p]
       IN  IF at < Len(held)
           THEN /\ role' = [role EXCEPT ![p] = held[at + 1]]
                /\ idx' = [idx EXCEPT ![p] = 1]
                /\ UNCHANGED lifecycle
           ELSE /\ role' = [role EXCEPT ![p] = "none"]
                /\ idx' = [idx EXCEPT ![p] = 0]
                /\ lifecycle' = [lifecycle EXCEPT ![p] = "PostInitDone"]
    /\ UNCHANGED <<broken, DISABLE_COMPILE_CACHE, running, compileCount,
                   callCount, finished, degraded, prepVars, storeVars>>

Next ==
    \E p \in Procs :
        \/ StartPreInit(p)
        \/ Invoke(p)
        \/ LoadFailure(p)
        \/ Return(p)
        \/ EndPreInit(p)
        \/ StartPostInit(p)
        \/ EndRolePass(p)

Spec == Init /\ [][Next]_vars

(***************************************************************************)
(* Function preparation: PREP and PREPMAIN of main/script_macros.hpp.      *)
(***************************************************************************)
\* compile preProcessFileLineNumbers: the code of the file, {} when it fails.
Compile(f) == IF f \in broken THEN "{}" ELSE f

Resolutions ==
    LET total(p) == LET c == resolveCount[p]
                        RECURSIVE sum(_)
                        sum(S) == IF S = {} THEN 0
                                  ELSE LET f == CHOOSE x \in S : TRUE
                                       IN  c[f] + sum(S \ {f})
                    IN  sum(Files)
    IN  total("server") + total("client")

\* TRIPLES(ADDON,fnc,var1) = compile preProcessFileLineNumbers '<file>'
PREP(p, component, var1) ==
    /\ Resolutions < MaxResolve
    /\ LET f == PATHTO_SYS("Win99", component, "functions", "fnc_" \o var1) IN
        /\ compileCount' = [compileCount EXCEPT ![p][f] = @ + 1]
        /\ resolveCount' = [resolveCount EXCEPT ![p][f] = @ + 1]
        /\ fncVars' = [fncVars EXCEPT ![p][ADDON(component) \o "_fnc_" \o var1] = Compile(f)]
    /\ UNCHANGED <<broken, DISABLE_COMPILE_CACHE, lifeVars, storeVars>>

\* TRIPLES(PREFIX,fnc,var1) = compile preProcessFileLineNumbers '<file>'
PREPMAIN(p, component, var1) ==
    /\ Resolutions < MaxResolve
    /\ LET f == PATHTO_SYS("Win99", component, "functions", "fnc_" \o var1) IN
        /\ compileCount' = [compileCount EXCEPT ![p][f] = @ + 1]
        /\ resolveCount' = [resolveCount EXCEPT ![p][f] = @ + 1]
        /\ fncVars' = [fncVars EXCEPT ![p][PREFIX \o "_fnc_" \o var1] = Compile(f)]
    /\ UNCHANGED <<broken, DISABLE_COMPILE_CACHE, lifeVars, storeVars>>

\* A component header may define DISABLE_COMPILE_CACHE before the macros.
PrepSpecInit ==
    /\ broken \in SubsetsUpTo(FunctionFiles, MaxBroken)
    /\ DISABLE_COMPILE_CACHE \in BOOLEAN
    /\ LifecycleInit
    /\ PrepInit
    /\ StoreInit

PrepNext ==
    \E p \in Procs, c \in Components, n \in FncNames :
        \/ PREP(p, c, n)
        \/ PREPMAIN(p, c, n)

PrepSpec == PrepSpecInit /\ [][PrepNext]_vars

(***************************************************************************)
(* The variable macros of main/script_macros.hpp.                          *)
(***************************************************************************)
\* <namespace> getVariable [name, default]
GETVAR_SYS(ns, var1, var2) == IF ns[var1] = "nil" THEN var2 ELSE ns[var1]

\* Mutant: the plain write passes the public flag.
SETVAR_SYS_Public(w, p, ns, var1, var2) ==
    [store |-> [w.store EXCEPT ![p][ns][var1] = var2],
     net   |-> w.net \cup {[id |-> nwrites + 1, to |-> q, ns |-> ns,
                            name |-> var1, val |-> var2] : q \in Procs \ {p}}]

\* <namespace> setVariable [name, value]: the binding on the caller's machine.
SETVAR_SYS(w, p, ns, var1, var2) ==
    [store |-> [w.store EXCEPT ![p][ns][var1] = var2],
     net   |-> w.net]

\* Mutant: the public write drops the public flag.
SETPVAR_SYS_Local(w, p, ns, var1, var2) ==
    [store |-> [w.store EXCEPT ![p][ns][var1] = var2],
     net   |-> w.net]

\* <namespace> setVariable [name, value, true]: also sent to every other machine.
SETPVAR_SYS(w, p, ns, var1, var2) ==
    [store |-> [w.store EXCEPT ![p][ns][var1] = var2],
     net   |-> w.net \cup {[id |-> nwrites + 1, to |-> q, ns |-> ns,
                            name |-> var1, val |-> var2] : q \in Procs \ {p}}]

GETVAR(p, var1, var2, var3) == GETVAR_SYS(store[p][var1], var2, var3)

\* Mutant: the mission read was copied from the parsing read.
GETMVAR_Parsing(p, var1, var2) == GETVAR_SYS(store[p]["parsingNamespace"], var1, var2)

GETMVAR(p, var1, var2) == GETVAR_SYS(store[p]["missionNamespace"], var1, var2)

GETPAVAR(p, var1, var2) == GETVAR_SYS(store[p]["parsingNamespace"], var1, var2)

World == [store |-> store, net |-> net]

\* What every setVariable call does to the state, given its effect.
Written(p, ns, var1, w) ==
    /\ nwrites < MaxWrites
    /\ store' = w.store
    /\ net' = w.net
    /\ nwrites' = nwrites + 1
    /\ touched' = [touched EXCEPT ![p] = @ \cup {<<ns, var1>>}]
    /\ UNCHANGED <<broken, DISABLE_COMPILE_CACHE, lifeVars, compileCount,
                   prepVars, recv>>

SETVAR(p, var1, var2, var3) ==
    Written(p, var1, var2, SETVAR_SYS(World, p, var1, var2, var3))

SETPVAR(p, var1, var2, var3) ==
    Written(p, var1, var2, SETPVAR_SYS(World, p, var1, var2, var3))

SETMVAR(p, var1, var2) ==
    Written(p, "missionNamespace", var1,
            SETVAR_SYS(World, p, "missionNamespace", var1, var2))

SETPMVAR(p, var1, var2) ==
    Written(p, "missionNamespace", var1,
            SETPVAR_SYS(World, p, "missionNamespace", var1, var2))

SETPAVAR(p, var1, var2) ==
    Written(p, "parsingNamespace", var1,
            SETVAR_SYS(World, p, "parsingNamespace", var1, var2))

\* The transport hands a public write to the machine it was sent to.
Deliver(m) ==
    /\ m \in net
    /\ store' = [store EXCEPT ![m.to][m.ns][m.name] = m.val]
    /\ net' = net \ {m}
    /\ recv' = [recv EXCEPT ![m.to] = @ \cup {m.id}]
    /\ touched' = [touched EXCEPT ![m.to] = @ \cup {<<m.ns, m.name>>}]
    /\ UNCHANGED <<broken, DISABLE_COMPILE_CACHE, lifeVars, compileCount,
                   prepVars, nwrites>>

StoreSpecInit ==
    /\ broken = {}
    /\ DISABLE_COMPILE_CACHE = FALSE
    /\ LifecycleInit
    /\ PrepInit
    /\ StoreInit

StoreNext ==
    \/ \E p \in Procs, o \in Objects, k \in Names, v \in Values : SETVAR(p, o, k, v)
    \/ \E p \in Procs, o \in Objects, k \in Names, v \in Values : SETPVAR(p, o, k, v)
    \/ \E p \in Procs, k \in Names, v \in Values : SETMVAR(p, k, v)
    \/ \E p \in Procs, k \in Names, v \in Values : SETPMVAR(p, k, v)
    \/ \E p \in Procs, k \in Names, v \in Values : SETPAVAR(p, k, v)
    \/ \E m \in net : Deliver(m)

StoreSpec == StoreSpecInit /\ [][StoreNext]_vars

\* The transport delivers every message it has accepted.
DeliverTo(q, i) == \E m \in net : m.to = q /\ m.id = i /\ Deliver(m)

FairStoreSpec ==
    StoreSpec /\ \A q \in Procs : \A i \in 1..MaxWrites : WF_vars(DeliverTo(q, i))

(***************************************************************************)
(* The properties checked.  The modules are named as the registries name   *)
(* them, in declaration order, with the directory each one's files are in. *)
(***************************************************************************)
ModuleOrder == <<"main", "db", "calendar", "messenger", "notepad", "snet">>

ModuleDirs == {ModuleOrder[i] : i \in DOMAIN ModuleOrder}

ModuleClass(m) ==
    CASE m = "main"      -> "Win99_Main"
      [] m = "db"        -> "Win99_DB"
      [] m = "calendar"  -> "Win99_Calendar"
      [] m = "messenger" -> "Win99_Messenger"
      [] m = "notepad"   -> "Win99_Notepad"
      [] m = "snet"      -> "Win99_SNet"

\* The file of each module's entries, as the registries spell them.
EntryFiles ==
    [m \in ModuleDirs |->
        [pre    |-> "Win99\\" \o m \o "\\XEH_preInit.sqf",
         init   |-> "Win99\\" \o m \o "\\XEH_postInit.sqf",
         client |-> "Win99\\" \o m \o "\\XEH_postInit_client.sqf",
         server |-> "Win99\\" \o m \o "\\XEH_postInit_server.sqf"]]

PreFile(m) == EntryFiles[m].pre

InitFile(m) == EntryFiles[m].init

ClientFile(m) == EntryFiles[m].client

ServerFile(m) == EntryFiles[m].server

PreFiles == {PreFile(m) : m \in ModuleDirs}

PostFiles == {InitFile(m) : m \in ModuleDirs} \cup {ClientFile(m) : m \in ModuleDirs}
                \cup {ServerFile(m) : m \in ModuleDirs}

\* The entry for the file has begun to run on p: its compile has been issued.
Begun(p, f) == f \in DOMAIN compileCount[p] /\ compileCount[p][f] > 0

\* The entry for the file has run to its end on p.
Ended(p, f) == f \in finished[p]

Count(c, f) == IF f \in DOMAIN c THEN c[f] ELSE 0

\* C1: on every process, whatever its roles, the pre-init entry of each of the
\* six modules has run to its end before any post-init entry (init, clientInit
\* or serverInit) of any module begins on that process.
C1_PreInitBeforePostInit ==
    \A p \in Procs :
        (\E f \in PostFiles : Begun(p, f)) =>
            \A m \in ModuleDirs : Ended(p, PreFile(m))

C1_Witness ==
    \A p \in Procs : Begun(p, InitFile("main")) /\ callCount[p][PreFile("snet")] = 1

\* C2: within the pre-init phase and within each post-init role pass of a
\* process, the entries run in declaration order without interleaving: when
\* the entry of a module begins, the entry of every module declared before it
\* for the same phase and role has run to its end.
C2_DeclarationOrder ==
    \A p \in Procs : \A j \in DOMAIN ModuleOrder : \A i \in 1..(j - 1) :
        /\ Begun(p, PreFile(ModuleOrder[j])) => Ended(p, PreFile(ModuleOrder[i]))
        /\ Begun(p, InitFile(ModuleOrder[j])) => Ended(p, InitFile(ModuleOrder[i]))
        /\ Begun(p, ServerFile(ModuleOrder[j])) => Ended(p, ServerFile(ModuleOrder[i]))
        /\ Begun(p, ClientFile(ModuleOrder[j])) => Ended(p, ClientFile(ModuleOrder[i]))

C2_Witness ==
    /\ running["server"] = ServerFile("snet")
    /\ running["client"] = ClientFile("db")
    /\ callCount["client"][ClientFile("main")] = 1

\* C3: when the pre-init file of a module fails to compile, the module is
\* marked Degraded and the compile is issued once only; the phase is not
\* aborted: the dispatcher always has a next step, every other module's
\* pre-init entry has run by the end of the phase (its function called once
\* when its own file compiles), and the post-init phase can begin.
C3_LoadFailureIsolated ==
    \A p \in Procs : \A m \in ModuleDirs :
        (PreFile(m) \in broken) =>
            /\ Count(compileCount[p], PreFile(m)) <= 1
            /\ Count(callCount[p], PreFile(m)) = 0
            /\ Begun(p, PreFile(m)) => ModuleClass(m) \in degraded[p]
            /\ (lifecycle[p] = "PreInitRunning" /\ running[p] = "none") =>
                    ENABLED (Invoke(p) \/ LoadFailure(p) \/ EndPreInit(p))
            /\ lifecycle[p] = "PreInitDone" => ENABLED StartPostInit(p)
            /\ lifecycle[p] \in {"PreInitDone", "PostInitRunning", "PostInitDone"} =>
                    /\ Begun(p, PreFile(m))
                    /\ \A o \in ModuleDirs \ {m} :
                            /\ Ended(p, PreFile(o))
                            /\ PreFile(o) \notin broken =>
                                    Count(callCount[p], PreFile(o)) = 1

C3_Witness ==
    \E p \in Procs :
        /\ PreFile("db") \in broken
        /\ lifecycle[p] = "PostInitRunning"
        /\ "Win99_DB" \in degraded[p]
        /\ callCount[p][PreFile("main")] = 1
        /\ callCount[p][PreFile("snet")] = 1

\* C4: with the compile cache enabled (DISABLE_COMPILE_CACHE not defined) the
\* compile of a function file is issued at most once per file and process,
\* however often the function is prepared; with the cache disabled every
\* preparation issues the compile.
C4_CompileCache ==
    \A p \in Procs : \A f \in FunctionFiles :
        /\ ~DISABLE_COMPILE_CACHE => compileCount[p][f] <= 1
        /\ DISABLE_COMPILE_CACHE => compileCount[p][f] = resolveCount[p][f]

\* C8: on a process, the init entry of a module has run to its end before
\* the serverInit or the clientInit entry of that module begins.
C8_MainRoleFirst ==
    \A p \in Procs : \A m \in ModuleDirs :
        (Begun(p, ServerFile(m)) \/ Begun(p, ClientFile(m))) => Ended(p, InitFile(m))

C8_Witness ==
    /\ Ended("server", ServerFile("main"))
    /\ Ended("client", ClientFile("main"))

LifecycleRank(l) ==
    CASE l = "Unstarted"       -> 0
      [] l = "PreInitRunning"  -> 1
      [] l = "PreInitDone"     -> 2
      [] l = "PostInitRunning" -> 3
      [] l = "PostInitDone"    -> 4

\* C9: the lifecycle of a process only moves forward; every pre-init and
\* post-init entry is run at most once on a process, and once PostInitDone is
\* reached nothing is compiled or called on it again.
C9_OneDirectional ==
    /\ [](\A p \in Procs : \A f \in DOMAIN compileCount[p] :
            (f \in PostFiles \/ f \in PreFiles) =>
                compileCount[p][f] <= 1 /\ callCount[p][f] <= 1)
    /\ [][\A p \in Procs :
            /\ LifecycleRank(lifecycle'[p]) >= LifecycleRank(lifecycle[p])
            /\ LifecycleRank(lifecycle'[p]) <= LifecycleRank(lifecycle[p]) + 1
            /\ lifecycle[p] = "PostInitDone" =>
                    /\ compileCount'[p] = compileCount[p]
                    /\ callCount'[p] = callCount[p]
                    /\ running'[p] = "none"]_vars

C9_Witness ==
    \E p \in Procs :
        /\ lifecycle[p] = "PostInitDone"
        /\ \A m \in ModuleDirs : callCount[p][PreFile(m)] = 1 /\ callCount[p][InitFile(m)] = 1

\* C10: a role's entries run only on a process that holds the role: the
\* server never begins a clientInit entry, the client never begins a
\* serverInit entry, and at PostInitDone the server has run exactly the init
\* and serverInit entries, the client exactly the init and clientInit entries.
C10_RoleGating ==
    /\ \A m \in ModuleDirs :
            ~Begun("client", ServerFile(m)) /\ ~Begun("server", ClientFile(m))
    /\ lifecycle["server"] = "PostInitDone" =>
            {f \in PostFiles : Begun("server", f)} =
                {InitFile(m) : m \in ModuleDirs} \cup {ServerFile(m) : m \in ModuleDirs}
    /\ lifecycle["client"] = "PostInitDone" =>
            {f \in PostFiles : Begun("client", f)} =
                {InitFile(m) : m \in ModuleDirs} \cup {ClientFile(m) : m \in ModuleDirs}

C10_Witness ==
    /\ lifecycle["server"] = "PostInitDone" /\ Ended("server", ServerFile("snet"))
    /\ lifecycle["client"] = "PostInitDone" /\ Ended("client", ClientFile("snet"))

Defaults == Values \cup {"dflt"}

\* The read macro of each namespace.
Get(p, ns, k, d) ==
    CASE ns = "missionNamespace" -> GETMVAR(p, k, d)
      [] ns = "parsingNamespace" -> GETPAVAR(p, k, d)
      [] OTHER                   -> GETVAR(p, ns, k, d)

\* The write macro without the public flag of each namespace.
LocalSet(p, ns, k, v) ==
    CASE ns = "missionNamespace" -> SETMVAR(p, k, v)
      [] ns = "parsingNamespace" -> SETPAVAR(p, k, v)
      [] OTHER                   -> SETVAR(p, ns, k, v)

\* The write macro with the public flag, where the namespace has one.
PublicSet(p, ns, k, v) ==
    CASE ns = "missionNamespace" -> SETPMVAR(p, k, v)
      [] ns = "parsingNamespace" -> FALSE
      [] OTHER                   -> SETPVAR(p, ns, k, v)

\* C5: a read of a (namespace, name) pair that was never set on the process
\* returns the caller's default; right after a write without the public flag
\* of v to the pair, a read on the same process returns v whatever the
\* default; and a step changes what a read of a pair returns only if it sets
\* that very pair on that process.
C5_GetSet ==
    /\ [](\A p \in Procs : \A ns \in Namespaces : \A k \in Names : \A d \in Defaults :
            <<ns, k>> \notin touched[p] => Get(p, ns, k, d) = d)
    /\ [][\A p \in Procs : \A ns \in Namespaces : \A k \in Names :
            /\ \A v \in Values :
                    LocalSet(p, ns, k, v) => \A d \in Defaults : Get(p, ns, k, d)' = v
            /\ (\E d \in Defaults : Get(p, ns, k, d)' # Get(p, ns, k, d)) =>
                    \/ \E v \in Values : LocalSet(p, ns, k, v) \/ PublicSet(p, ns, k, v)
                    \/ \E m \in net : m.to = p /\ m.ns = ns /\ m.name = k /\ Deliver(m)]_vars

C5_Witness ==
    /\ nwrites = 2
    /\ net = {}
    /\ recv = [p \in Procs |-> {}]
    /\ GETMVAR("client", "k1", "dflt") = "b"
    /\ GETMVAR("client", "k2", "dflt") = "dflt"
    /\ GETPAVAR("client", "k1", "dflt") = "a"
    /\ GETVAR("client", "obj1", "k1", "a") = "a"

\* C6: a public write of v to a mission variable on p puts one message for
\* every other process in flight, without waiting for anything; under fair
\* delivery every message in flight is delivered to the process it is for,
\* and at delivery a read of the variable on that process returns v.
C6_PublicWriteDelivered ==
    /\ [](\A p \in Procs : \A k \in Names : \A v \in Values :
            nwrites < MaxWrites => ENABLED SETPMVAR(p, k, v))
    /\ [][\A p \in Procs : \A k \in Names : \A v \in Values :
            SETPMVAR(p, k, v) =>
                \A q \in Procs \ {p} :
                    \E m \in net' \ net :
                        m.to = q /\ m.ns = "missionNamespace" /\ m.name = k /\ m.val = v]_vars
    /\ [][\A m \in net :
            Deliver(m) =>
                /\ m.id \in recv'[m.to]
                /\ \A d \in Defaults : Get(m.to, m.ns, m.name, d)' = m.val]_vars
    /\ \A q \in Procs : \A i \in 1..MaxWrites :
            (\E m \in net : m.to = q /\ m.id = i) ~> (i \in recv[q])

C6_Witness ==
    /\ nwrites = 1
    /\ recv["client"] = {1}
    /\ net = {}
    /\ GETMVAR("server", "k1", "dflt") = "a"
    /\ GETMVAR("client", "k1", "dflt") = "a"

\* C7: a write without the public flag on p puts nothing in flight and
\* changes no binding of another process; the bindings of a process change
\* only by a write made on it or by the delivery of a public write to it.
C7_LocalWritesStayLocal ==
    [][/\ \A p \in Procs : \A ns \in Namespaces : \A k \in Names : \A v \in Values :
            LocalSet(p, ns, k, v) =>
                net' = net /\ \A q \in Procs \ {p} : store'[q] = store[q]
       /\ \A q \in Procs :
            store'[q] # store[q] =>
                \/ \E ns \in Namespaces, k \in Names, v \in Values :
                        LocalSet(q, ns, k, v) \/ PublicSet(q, ns, k, v)
                \/ \E m \in net : m.to = q /\ Deliver(m)]_vars

C7_Witness ==
    /\ nwrites = MaxWrites
    /\ net = {}
    /\ recv = [p \in Procs |-> {}]
    /\ store["server"]["missionNamespace"]["k1"] = "a"
    /\ store["server"]["obj1"]["k2"] = "b"
    /\ \A ns \in Namespaces : \A k \in Names : store["client"][ns][k] = "nil"

====
